---- MODULE Spec2Model ----
(***************************************************************************)
(* Model of usage-cpcode.py: the monthly CP-code traffic report.           *)
(*                                                                         *)
(* The script is sequential.  Its state is the set of local variables of   *)
(* cptrafficPerMonth and of the __main__ block; its inputs are the         *)
(* responses of the API calls, drawn at the call that fetches them.        *)
(* Strings whose contents the code inspects (contract ids, group ids,      *)
(* group names, month strings) are sequences of one-character strings.     *)
(***************************************************************************)
EXTENDS Integers, Sequences, FiniteSets, TLC

(***************************************************************************)
(* Bounds of the model.                                                    *)
(***************************************************************************)
MaxContracts == 2
MaxGroups == 3
MaxRepGroups == 2
MaxFeed == 2
\* the responses of one run list at most MaxInput objects altogether
\* (contracts, CP codes, groups, reporting groups, usage records)
MaxInput == 6
MaxN == 25

\* the CP codes of the account
CpcodeIds == {1, 2}

(***************************************************************************)
(* Strings.                                                                *)
(***************************************************************************)
CTR == <<"c", "t", "r", "_">>
GRP == <<"g", "r", "p", "_">>
DigitChars == {"0", "1", "2", "3", "4", "5", "6", "7", "8", "9"}

RECURSIVE Dec(_)
\* str(n) for n >= 0
Dec(n) == IF n < 10 THEN <<ToString(n)>>
          ELSE Dec(n \div 10) \o <<ToString(n % 10)>>

DigitVal(c) == CHOOSE d \in 0..9 : ToString(d) = c

\* the strings int() accepts among those the model builds: one digit or more
IsDigits(s) == Len(s) > 0 /\ \A i \in 1..Len(s) : s[i] \in DigitChars

RECURSIVE IntOf(_)
\* int(s) of a digit string
IntOf(s) == IF Len(s) = 0 THEN 0
            ELSE 10 * IntOf(SubSeq(s, 1, Len(s) - 1)) + DigitVal(s[Len(s)])

RECURSIVE Replace(_, _)
\* s.replace(old, ""): every non-overlapping occurrence, left to right
Replace(s, old) ==
    IF Len(s) < Len(old) THEN s
    ELSE IF SubSeq(s, 1, Len(old)) = old
         THEN Replace(SubSeq(s, Len(old) + 1, Len(s)), old)
         ELSE <<Head(s)>> \o Replace(Tail(s), old)

\* x in s, for strings
Contains(x, s) ==
    \E i \in 1..(Len(s) + 1) :
        /\ i + Len(x) - 1 <= Len(s)
        /\ SubSeq(s, i, i + Len(x) - 1) = x

\* s[k:] with k = 4
DropFour(s) == SubSeq(s, 5, Len(s))

ContractId(i) == CTR \o Dec(i)
GroupId(i) == GRP \o Dec(i)

(***************************************************************************)
(* checkresponse                                                           *)
(***************************************************************************)
Statuses == {200, 500}
UsageStatuses == {200, 204, 500}

Rejected(status) == status >= 300

(***************************************************************************)
(* Values.                                                                 *)
(***************************************************************************)
\* Python's None and a present value
None == [some |-> FALSE, v |-> 0]
Some(x) == [some |-> TRUE, v |-> x]
NoneStr == [some |-> FALSE, v |-> <<>>]

Min(S) == CHOOSE x \in S : \A y \in S : x <= y
Least(a, b) == IF a <= b THEN a ELSE b

\* a dict with integer keys: a function on the keys inserted so far
EmptyMap == [k \in {} |-> <<>>]
MapAppend(m, key, val) ==
    [k \in DOMAIN m \cup {key} |->
        IF k = key THEN (IF key \in DOMAIN m THEN Append(m[key], val) ELSE <<val>>)
        ELSE m[k]]

\* a dict in insertion order, as the sequence of its values; keyOf gives the key
RECURSIVE DictFromList(_, _)
DictFromList(items, field) ==
    IF Len(items) = 0 THEN <<>>
    ELSE LET init == DictFromList(SubSeq(items, 1, Len(items) - 1), field)
             last == items[Len(items)]
             same == {i \in 1..Len(init) : init[i][field] = last[field]}
         IN IF same = {} THEN Append(init, last)
            ELSE [init EXCEPT ![Min(same)] = last]

(***************************************************************************)
(* Hierarchy: rootContract and groupPath over the flat group list.         *)
(***************************************************************************)
RECURSIVE rootContract(_, _)
rootContract(group, groups) ==
    LET parents == {i \in 1..Len(groups) :
                        group.hasParent /\ groups[i].groupId = group.parentGroupId}
        own == {i \in 1..Len(group.contractIds) :
                        Contains(DropFour(group.contractIds[i]), group.groupName)}
    IN IF parents # {} THEN rootContract(groups[Min(parents)], groups)
       ELSE IF own # {} THEN Some(group.contractIds[Min(own)])
       ELSE NoneStr

RECURSIVE groupPath(_, _)
groupPath(groupId, groups) ==
    LET found == {i \in 1..Len(groups) : groups[i].groupId = groupId}
    IN IF found = {} THEN <<>>
       ELSE LET g == groups[Min(found)]
            IN IF g.hasParent
               THEN Append(groupPath(g.parentGroupId, groups), g.groupName)
               ELSE <<g.groupName>>

(***************************************************************************)
(* The responses the API calls can give.                                   *)
(***************************************************************************)
DELIVERY_PRODUCTS == {"Site_Accel::Site_Accel"}

\* b is the number of objects the run may still list
ContractsResponses(b) ==
    {[i \in 1..n |-> [contractId |-> ContractId(i)]] :
        n \in 1..Least(MaxContracts, b)}

StatusLists == {<<[status |-> "expired"]>>,
                <<[status |-> "expired"], [status |-> "ongoing"]>>}
ProductLists == {<<[productId |-> "Other::Other"]>>,
                 <<[productId |-> "Other::Other"],
                   [productId |-> "Site_Accel::Site_Accel"]>>}

CpcodeName(e) == "cp" \o ToString(e)

\* a CP code of the catalog; the CP codes are spread over the nc contracts
EntityRecs(e, nc) ==
    {[cpcodeId |-> e, cpcodeName |-> CpcodeName(e),
      accessGroup |-> [contractId |-> ContractId(((e - 1) % nc) + 1)],
      contracts |-> sl, products |-> pl] :
        sl \in StatusLists, pl \in ProductLists}

\* the billing catalog lists the first m CP codes of the account
CatalogResponses(nc, b) ==
    UNION {{cat \in [1..m -> UNION {EntityRecs(e, nc) : e \in 1..m}] :
                \A e \in 1..m : cat[e].cpcodeId = e} :
           m \in {k \in 0..b : 1..k \subseteq CpcodeIds}}

RootNames == {<<"A", "1">>, <<"A", "c", "m", "e">>}
ChildName(i) == <<"T">> \o Dec(i)
MissingGroup == GRP \o <<"0">>

\* a flat list of n groups: group 1 is the root (its parent, when it names
\* one, is not in the list); group i > 1 is a child of group 1 or of group i-1
GroupResponses(contractIds, b) ==
    UNION {{[i \in 1..n |->
                [groupId |-> GroupId(i),
                 groupName |-> IF i = 1 THEN rn ELSE ChildName(i),
                 hasParent |-> (i > 1) \/ dangling,
                 parentGroupId |-> IF i = 1 THEN MissingGroup ELSE GroupId(pf[i]),
                 contractIds |-> contractIds]] :
             rn \in RootNames, dangling \in BOOLEAN,
             pf \in {f \in [1..n -> 1..n] :
                        \A i \in 1..n : (i = 1 /\ f[i] = 1)
                                        \/ (i > 1 /\ f[i] \in {1, i - 1})}} :
           n \in 0..Least(MaxGroups, b)}

\* cpcodes of a group: CP codes in ascending order, ids as digit strings
RECURSIVE AscList(_)
AscList(S) == IF S = {} THEN <<>>
              ELSE <<Min(S)>> \o AscList(S \ {Min(S)})
CpiOf(e) == [cpcodeId |-> Dec(e)]
\* a group lists CP codes of the catalog
MemberResponses(ids) ==
    {[i \in 1..Cardinality(S) |-> CpiOf(AscList(S)[i])] : S \in SUBSET ids}

RepGroupName(j) == "RG" \o ToString(j)
RepGroupOf(j, S) ==
    [reportingGroupName |-> RepGroupName(j),
     contracts |-> <<[cpcodes |-> [i \in 1..Cardinality(S) |->
                                    [cpcodeId |-> AscList(S)[i]]]]>>]
\* a reporting group holds CP codes of the catalog
RepGroupResponses(ids, b) ==
    UNION {{[j \in 1..m |-> RepGroupOf(j, f[j])] :
                f \in [1..m -> SUBSET ids]} : m \in 0..Least(MaxRepGroups, b)}

(***************************************************************************)
(* State.                                                                  *)
(***************************************************************************)
VARIABLES
    pc,                 \* position in the script
    err,                \* the exception that ended the run, "" if none
    contractMap,        \* cptrafficPerMonth: contractMap, in insertion order
    cpcodeMap,          \* cptrafficPerMonth: cpcodeMap, in insertion order
    accountGroups,      \* listAccountGroups(): groups with contractId and path
    gi,                 \* index of the group loop (line 202)
    groupmap,           \* groupmap
    mapCpcodeAccgroup,  \* mapCpcodeAccgroup
    mapCpcodeRepgroup,  \* mapCpcodeRepgroup
    cpcodeId,           \* the local variable cpcodeId
    ci,                 \* index of the contract loop (line 218)
    traffic,            \* traffic
    addedCpCodes,       \* addedCpCodes
    file,               \* traffic_<month>.csv: whether it exists, the rows written
    ri,                 \* index of the row loop (line 303)
    sumRepGroups,       \* sumRepGroups
    budget,             \* bound: the number of objects the run may still list
    usageSeen,          \* history: CP codes that occurred in a usage feed
    origin,             \* history: per row of traffic, the pass and the contract fetched
    month,              \* month_add: the year and month of the argument m, and n
    forth,              \* month_add(m, n), once called
    back                \* month_add(month_add(m, n), -n), once called

vars == <<pc, err, contractMap, cpcodeMap, accountGroups, gi, groupmap,
          mapCpcodeAccgroup, mapCpcodeRepgroup, cpcodeId, ci, traffic,
          addedCpCodes, file, ri, sumRepGroups, budget, usageSeen, origin,
          month, forth, back>>

reportVars == <<pc, err, contractMap, cpcodeMap, accountGroups, gi, groupmap,
                mapCpcodeAccgroup, mapCpcodeRepgroup, cpcodeId, ci, traffic,
                addedCpCodes, file, ri, sumRepGroups, budget, usageSeen, origin>>
monthVars == <<month, forth, back>>

\* the value of cpcodeId: an int, or a contract item left by the loop of line 190
IntVal(n) == [isInt |-> TRUE, v |-> n]
DictVal == [isInt |-> FALSE, v |-> 0]

NotCalled == [called |-> FALSE, ok |-> FALSE, v |-> <<>>]

ReportInit ==
    /\ pc = "listContracts"
    /\ err = ""
    /\ contractMap = <<>>
    /\ cpcodeMap = <<>>
    /\ accountGroups = <<>>
    /\ gi = 1
    /\ groupmap = EmptyMap
    /\ mapCpcodeAccgroup = EmptyMap
    /\ mapCpcodeRepgroup = EmptyMap
    /\ cpcodeId = DictVal
    /\ ci = 1
    /\ traffic = <<>>
    /\ addedCpCodes = {}
    /\ file = [exists |-> FALSE, rows |-> 0]
    /\ ri = 1
    /\ sumRepGroups = EmptyMap
    /\ budget = MaxInput
    /\ usageSeen = {}
    /\ origin = <<>>

Init ==
    /\ ReportInit
    /\ month = [y |-> 0, mm |-> 1, n |-> 0]
    /\ forth = NotCalled
    /\ back = NotCalled

\* sys.exit(1) in checkresponse: nothing after the call runs
Exit ==
    /\ pc' = "exit"
    /\ UNCHANGED <<err, contractMap, cpcodeMap, accountGroups, gi, groupmap,
                   mapCpcodeAccgroup, mapCpcodeRepgroup, cpcodeId, ci, traffic,
                   addedCpCodes, file, ri, sumRepGroups, budget, usageSeen, origin, monthVars>>

CatalogIds == {cpcodeMap[i].cpcodeId : i \in 1..Len(cpcodeMap)}

(***************************************************************************)
(* cptrafficPerMonth, lines 188-214: the maps.                             *)
(***************************************************************************)
\* the file opened before the report is computed
ListContractsFileFirst ==
    /\ pc = "listContracts"
    /\ \E status \in Statuses :
        IF Rejected(status)
        THEN /\ pc' = "exit"
             /\ file' = [exists |-> TRUE, rows |-> 0]
             /\ UNCHANGED <<err, contractMap, cpcodeMap, accountGroups, gi, groupmap,
                            mapCpcodeAccgroup, mapCpcodeRepgroup, cpcodeId, ci, traffic,
                            addedCpCodes, ri, sumRepGroups, budget, usageSeen, origin,
                            monthVars>>
        ELSE \E items \in ContractsResponses(budget) :
            /\ contractMap' = DictFromList(items, "contractId")
            /\ cpcodeId' = DictVal
            /\ budget' = budget - Len(items)
            /\ file' = [exists |-> TRUE, rows |-> 0]
            /\ pc' = "listCpCodes"
            /\ UNCHANGED <<err, cpcodeMap, accountGroups, gi, groupmap,
                           mapCpcodeAccgroup, mapCpcodeRepgroup, ci, traffic,
                           addedCpCodes, ri, sumRepGroups, usageSeen, origin, monthVars>>

ListContracts ==
    /\ pc = "listContracts"
    /\ \E status \in Statuses :
        IF Rejected(status) THEN Exit
        ELSE \E items \in ContractsResponses(budget) :
            /\ contractMap' = DictFromList(items, "contractId")
            /\ cpcodeId' = DictVal
            /\ budget' = budget - Len(items)
            /\ pc' = "listCpCodes"
            /\ UNCHANGED <<err, cpcodeMap, accountGroups, gi, groupmap,
                           mapCpcodeAccgroup, mapCpcodeRepgroup, ci, traffic,
                           addedCpCodes, file, ri, sumRepGroups, usageSeen, origin, monthVars>>

ListCpCodes ==
    /\ pc = "listCpCodes"
    /\ \E status \in Statuses :
        IF Rejected(status) THEN Exit
        ELSE \E cpcodes \in CatalogResponses(Len(contractMap), budget) :
            /\ cpcodeMap' = DictFromList(cpcodes, "cpcodeId")
            /\ budget' = budget - Len(cpcodes)
            /\ pc' = "listAccountGroups"
            /\ UNCHANGED <<err, contractMap, accountGroups, gi, groupmap,
                           mapCpcodeAccgroup, mapCpcodeRepgroup, cpcodeId, ci, traffic,
                           addedCpCodes, file, ri, sumRepGroups, usageSeen, origin, monthVars>>

\* listAccountGroups(): every group gets its root contract and its path
ListAccountGroups ==
    /\ pc = "listAccountGroups"
    /\ \E status \in Statuses :
        IF Rejected(status) THEN Exit
        ELSE \E groups \in GroupResponses([i \in 1..Len(contractMap) |->
                                            contractMap[i].contractId], budget) :
            /\ accountGroups' =
                  [i \in 1..Len(groups) |->
                      [groupId |-> groups[i].groupId,
                       groupName |-> groups[i].groupName,
                       hasParent |-> groups[i].hasParent,
                       parentGroupId |-> groups[i].parentGroupId,
                       contractIds |-> groups[i].contractIds,
                       contractId |-> rootContract(groups[i], groups),
                       path |-> groupPath(groups[i].groupId, groups)]]
            /\ gi' = 1
            /\ budget' = budget - Len(groups)
            /\ pc' = "groups"
            /\ UNCHANGED <<err, contractMap, cpcodeMap, groupmap,
                           mapCpcodeAccgroup, mapCpcodeRepgroup, cpcodeId, ci, traffic,
                           addedCpCodes, file, ri, sumRepGroups, usageSeen, origin, monthVars>>

RECURSIVE AddCpcodesOfGroup(_, _, _)
\* lines 207-212 over the cpcodes of one group
AddCpcodesOfGroup(m, cpcodesOfGroup, groupId) ==
    IF Len(cpcodesOfGroup) = 0 THEN m
    ELSE AddCpcodesOfGroup(MapAppend(m, IntOf(Head(cpcodesOfGroup).cpcodeId), groupId),
                           Tail(cpcodesOfGroup), groupId)

\* one iteration of the loop of line 202
GroupStep ==
    /\ pc = "groups"
    /\ gi <= Len(accountGroups)
    /\ LET grp == accountGroups[gi]
           groupId == IntOf(Replace(grp.groupId, GRP))
       IN /\ groupmap' = [k \in DOMAIN groupmap \cup {groupId} |->
                              IF k = groupId THEN grp ELSE groupmap[k]]
          /\ IF ~grp.contractId.some
             THEN \* line 205: None has no replace
                  /\ pc' = "raised"
                  /\ err' = "AttributeError"
                  /\ UNCHANGED <<contractMap, cpcodeMap, accountGroups, gi,
                                 mapCpcodeAccgroup, mapCpcodeRepgroup, cpcodeId, ci,
                                 traffic, addedCpCodes, file, ri, sumRepGroups,
                                 budget, usageSeen, origin, monthVars>>
             ELSE \E status \in Statuses :
                    IF Rejected(status)
                    THEN /\ pc' = "exit"
                         /\ UNCHANGED <<err, contractMap, cpcodeMap, accountGroups, gi,
                                        mapCpcodeAccgroup, mapCpcodeRepgroup, cpcodeId,
                                        ci, traffic, addedCpCodes, file, ri,
                                        sumRepGroups, budget, usageSeen, origin, monthVars>>
                    ELSE \E cpcodesOfGroup \in MemberResponses(CatalogIds) :
                           /\ mapCpcodeAccgroup' =
                                 AddCpcodesOfGroup(mapCpcodeAccgroup, cpcodesOfGroup, groupId)
                           /\ cpcodeId' =
                                 IF Len(cpcodesOfGroup) = 0 THEN cpcodeId
                                 ELSE IntVal(IntOf(cpcodesOfGroup[Len(cpcodesOfGroup)].cpcodeId))
                           /\ gi' = gi + 1
                           /\ UNCHANGED <<pc, err, contractMap, cpcodeMap, accountGroups,
                                          mapCpcodeRepgroup, ci, traffic, addedCpCodes,
                                          file, ri, sumRepGroups, budget, usageSeen,
                                          origin, monthVars>>

RECURSIVE RepGroupMap(_, _)
\* createMapCpcodeRepGroup: the reporting groups of each CP code, in list order
RepGroupMap(repgroups, m) ==
    IF Len(repgroups) = 0 THEN m
    ELSE LET rg == Head(repgroups)
             \* the cpcodes of every contract of rg, in order
             Flat[k \in 0..Len(rg.contracts)] ==
                 IF k = 0 THEN <<>> ELSE Flat[k - 1] \o rg.contracts[k].cpcodes
             all == Flat[Len(rg.contracts)]
             AddAll[k \in 0..Len(all)] ==
                 IF k = 0 THEN m
                 ELSE MapAppend(AddAll[k - 1], all[k].cpcodeId,
                                [reportingGroupName |-> rg.reportingGroupName])
         IN RepGroupMap(Tail(repgroups), AddAll[Len(all)])

CreateMapCpcodeRepGroup ==
    /\ pc = "groups"
    /\ gi > Len(accountGroups)
    /\ \E status \in Statuses :
        IF Rejected(status) THEN Exit
        ELSE \E repgroups \in RepGroupResponses(CatalogIds, budget) :
            /\ mapCpcodeRepgroup' = RepGroupMap(repgroups, EmptyMap)
            /\ ci' = 1
            /\ budget' = budget - Len(repgroups)
            /\ pc' = "usage"
            /\ UNCHANGED <<err, contractMap, cpcodeMap, accountGroups, gi, groupmap,
                           mapCpcodeAccgroup, cpcodeId, traffic,
                           addedCpCodes, file, ri, sumRepGroups, usageSeen, origin, monthVars>>

(***************************************************************************)
(* getCpStatistics and the usage pass, lines 163-184 and 216-241.          *)
(***************************************************************************)
\* the value of a statistic of the k-th record of the feed of contract c
HitsValue(c, k) == 10 * c + k
BytesValue(c, k) == 100 * c + 7 * k

StatShapes(c, k) ==
    {<<[statType |-> "Bytes", value |-> BytesValue(c, k)],
       [statType |-> "Hits", value |-> HitsValue(c, k)]>>,
     <<[statType |-> "Bytes", value |-> BytesValue(c, k)]>>,
     <<[statType |-> "Hits", value |-> HitsValue(c, k)]>>}

\* the monthly summary of contract c: one usage period of at most b records,
\* each of another CP code of ids
UsageResponses(c, ids, b) ==
    UNION {{<<[cpCodeStats |-> f]>> :
                f \in {g \in [1..n -> [cpCode : ids,
                                       stats : UNION {StatShapes(c, k) : k \in 1..n}]] :
                            /\ \A k \in 1..n : g[k].stats \in StatShapes(c, k)
                            /\ \A j, k \in 1..n : j # k => g[j].cpCode # g[k].cpCode}} :
           n \in 0..Least(MaxFeed, b)}

RECURSIVE LastStat(_, _)
\* lines 171-177: the value of the last entry of the given type, None without one
LastStat(stats, type) ==
    IF Len(stats) = 0 THEN None
    ELSE IF stats[Len(stats)].statType = type THEN Some(stats[Len(stats)].value)
    ELSE LastStat(SubSeq(stats, 1, Len(stats) - 1), type)

CpStat(stat) ==
    [cpcode |-> stat.cpCode,
     hits |-> LastStat(stat.stats, "Hits"),
     gb |-> LastStat(stat.stats, "Bytes")]

RECURSIVE getCpStatistics(_)
\* the records of every usage period, in order
getCpStatistics(usagePeriods) ==
    IF Len(usagePeriods) = 0 THEN <<>>
    ELSE [i \in 1..Len(Head(usagePeriods).cpCodeStats) |->
                CpStat(Head(usagePeriods).cpCodeStats[i])]
            \o getCpStatistics(Tail(usagePeriods))

CatalogEntry(id) ==
    cpcodeMap[CHOOSE i \in 1..Len(cpcodeMap) : cpcodeMap[i].cpcodeId = id]

\* the contract the usage was fetched under, instead of the catalog's
RowContractFetched(cpcode, fetched) == fetched

\* lines 222 and 248: the contract a row reports
RowContract(cpcode, fetched) == Replace(cpcode.accessGroup.contractId, CTR)

RECURSIVE FirstLevelNamesDeep(_, _)
\* every group below the root, instead of the first level alone
FirstLevelNamesDeep(groupId, gm) ==
    IF Len(groupId) = 0 THEN <<>>
    ELSE LET path == gm[Head(groupId)].path
         IN (IF Len(path) >= 2 THEN <<path[2]>> ELSE <<>>)
                \o FirstLevelNamesDeep(Tail(groupId), gm)

RECURSIVE FirstLevelNames(_, _)
\* lines 226-230 and 266-270
FirstLevelNames(groupId, gm) ==
    IF Len(groupId) = 0 THEN <<>>
    ELSE LET path == gm[Head(groupId)].path
         IN (IF Len(path) = 2 THEN <<path[2]>> ELSE <<>>)
                \o FirstLevelNames(Tail(groupId), gm)

\* lines 234-236 and 272-274
RepGroupNames(id, m) ==
    IF id \in DOMAIN m THEN [i \in 1..Len(m[id]) |-> m[id][i].reportingGroupName]
    ELSE <<>>

UsageRow(cpstat, fetched) ==
    LET cpcode == CatalogEntry(cpstat.cpcode)
    IN [contract |-> RowContract(cpcode, fetched),
        cpcode |-> cpstat.cpcode,
        name |-> cpcode.cpcodeName,
        groupPath |-> FirstLevelNames(mapCpcodeAccgroup[cpstat.cpcode], groupmap),
        repGroups |-> RepGroupNames(cpstat.cpcode, mapCpcodeRepgroup),
        hasStats |-> TRUE,
        hits |-> cpstat.hits,
        gb |-> cpstat.gb]

RECURSIVE UsageRows(_, _, _)
\* lines 220-240 over the statistics of one contract; acc is the rows so far,
\* the variable cpcodeId and the exception raised, if any
UsageRows(cpstats, fetched, acc) ==
    IF Len(cpstats) = 0 \/ acc.err # "" THEN acc
    ELSE LET cpstat == Head(cpstats)
             id == IntVal(cpstat.cpcode)
         IN IF cpstat.cpcode \notin CatalogIds
               \/ cpstat.cpcode \notin DOMAIN mapCpcodeAccgroup
            THEN [acc EXCEPT !.cpcodeId = id, !.err = "KeyError"]
            ELSE UsageRows(Tail(cpstats), fetched,
                           [acc EXCEPT !.cpcodeId = id,
                                       !.rows = Append(@, UsageRow(cpstat, fetched))])

\* line 241: what the contract's iteration adds to addedCpCodes
AddedAfterContract(added, cpstats, last) == added \cup {last.v}

\* a feed names CP codes of the catalog and, where the account has one, a CP
\* code the catalog does not list
FeedIds == {e \in CpcodeIds : e <= Len(cpcodeMap) + 1}

\* one iteration of the loop of line 218
UsageStep ==
    /\ pc = "usage"
    /\ ci <= Len(contractMap)
    /\ LET fetched == Replace(contractMap[ci].contractId, CTR)
       IN \E status \in UsageStatuses :
            IF Rejected(status) THEN Exit
            ELSE \E usage \in (IF status = 204 THEN {<<>>}
                               ELSE UsageResponses(ci, FeedIds, budget)) :
                LET cpstats == getCpStatistics(usage)
                    res == UsageRows(cpstats, fetched,
                                     [rows |-> <<>>, cpcodeId |-> cpcodeId, err |-> ""])
                    bad == IF res.err # "" THEN res.err
                           ELSE IF ~res.cpcodeId.isInt THEN "TypeError"
                           ELSE ""
                IN /\ traffic' = traffic \o res.rows
                   /\ origin' = origin \o [k \in 1..Len(res.rows) |->
                                               [pass |-> "usage", fetched |-> fetched]]
                   /\ usageSeen' = usageSeen \cup {cpstats[k].cpcode : k \in 1..Len(cpstats)}
                   /\ cpcodeId' = res.cpcodeId
                   /\ budget' = budget - Len(cpstats)
                   /\ IF bad # ""
                      THEN /\ pc' = "raised"
                           /\ err' = bad
                           /\ UNCHANGED <<ci, addedCpCodes>>
                      ELSE /\ addedCpCodes' =
                                 AddedAfterContract(addedCpCodes, cpstats, res.cpcodeId)
                           /\ ci' = ci + 1
                           /\ UNCHANGED <<pc, err>>
                   /\ UNCHANGED <<contractMap, cpcodeMap, accountGroups, gi, groupmap,
                                  mapCpcodeAccgroup, mapCpcodeRepgroup, file, ri,
                                  sumRepGroups, monthVars>>

(***************************************************************************)
(* The pass over the CP codes without traffic, lines 244-278.              *)
(***************************************************************************)
\* main calls cptrafficPerMonth(productId, month): the default of line 187
includeNoTraffic == FALSE

\* lines 247-254
ValidContract(cpcode) ==
    \E i \in 1..Len(cpcode.contracts) : cpcode.contracts[i].status = "ongoing"

\* lines 256-262
ValidProduct(cpcode) ==
    \E i \in 1..Len(cpcode.products) : cpcode.products[i].productId \in DELIVERY_PRODUCTS

NoTrafficRow(cpcode) ==
    [contract |-> RowContract(cpcode, <<>>),
     cpcode |-> cpcode.cpcodeId,
     name |-> cpcode.cpcodeName,
     groupPath |-> FirstLevelNames(mapCpcodeAccgroup[cpcode.cpcodeId], groupmap),
     repGroups |-> RepGroupNames(cpcode.cpcodeId, mapCpcodeRepgroup),
     hasStats |-> FALSE,
     hits |-> None,
     gb |-> None]

RECURSIVE NoTrafficRows(_, _)
\* the loop of line 245 from the k-th CP code of the catalog on
NoTrafficRows(k, acc) ==
    IF k > Len(cpcodeMap) \/ acc.err # "" THEN acc
    ELSE LET cpcode == cpcodeMap[k]
             id == cpcode.cpcodeId
         IN IF id \in acc.added
            THEN NoTrafficRows(k + 1, [acc EXCEPT !.added = @ \cup {id}])
            ELSE IF ~ValidContract(cpcode) \/ ~ValidProduct(cpcode)
            THEN NoTrafficRows(k + 1, acc)
            ELSE IF id \notin DOMAIN mapCpcodeAccgroup
            THEN [acc EXCEPT !.err = "KeyError"]
            ELSE NoTrafficRows(k + 1,
                               [acc EXCEPT !.rows = Append(@, NoTrafficRow(cpcode)),
                                           !.added = @ \cup {id}])

\* lines 244-279, after the last contract
NoTrafficPass ==
    /\ pc = "usage"
    /\ ci > Len(contractMap)
    /\ LET res == IF ~includeNoTraffic
                  THEN NoTrafficRows(1, [rows |-> <<>>, added |-> addedCpCodes, err |-> ""])
                  ELSE [rows |-> <<>>, added |-> addedCpCodes, err |-> ""]
       IN /\ traffic' = traffic \o res.rows
          /\ origin' = origin \o [k \in 1..Len(res.rows) |->
                                      [pass |-> "notraffic", fetched |-> <<>>]]
          /\ addedCpCodes' = res.added
          /\ IF res.err # ""
             THEN pc' = "raised" /\ err' = res.err
             ELSE pc' = "open" /\ err' = err
    /\ UNCHANGED <<contractMap, cpcodeMap, accountGroups, gi, groupmap,
                   mapCpcodeAccgroup, mapCpcodeRepgroup, cpcodeId, ci, file, ri,
                   sumRepGroups, budget, usageSeen, monthVars>>

(***************************************************************************)
(* __main__, lines 296-324: the CSV file and the summary.                  *)
(***************************************************************************)
\* line 298-302: the file is created and the header written
OpenFile ==
    /\ pc = "open"
    /\ file' = [exists |-> TRUE, rows |-> 0]
    /\ ri' = 1
    /\ pc' = "rows"
    /\ UNCHANGED <<err, contractMap, cpcodeMap, accountGroups, gi, groupmap,
                   mapCpcodeAccgroup, mapCpcodeRepgroup, cpcodeId, ci, traffic,
                   addedCpCodes, sumRepGroups, budget, usageSeen, origin, monthVars>>

\* row.get(key, 0)
RowGet(row, key) == IF row.hasStats THEN row[key] ELSE Some(0)

ZeroStats == [hits |-> 0, gb |-> 0]

\* the number of groups, instead of one less
MultipleFactorAll(k) == k

\* the factor of the correction of lines 320-324
MultipleFactor(k) == k - 1

\* "if name not in sumRepGroups: ...; hits += factor * h; gb += factor * g":
\* acc is the totals so far and the exception raised, if any
AddToBucket(acc, name, row, factor) ==
    IF acc.err # "" THEN acc
    ELSE LET sums == IF name \in DOMAIN acc.sums THEN acc.sums
                     ELSE [n \in DOMAIN acc.sums \cup {name} |->
                              IF n = name THEN ZeroStats ELSE acc.sums[n]]
             h == RowGet(row, "hits")
             g == RowGet(row, "gb")
         IN IF ~h.some THEN [sums |-> sums, err |-> "TypeError"]
            ELSE LET withHits == [sums EXCEPT ![name].hits = @ + factor * h.v]
                 IN IF ~g.some THEN [sums |-> withHits, err |-> "TypeError"]
                    ELSE [sums |-> [withHits EXCEPT ![name].gb = @ + factor * g.v],
                          err |-> ""]

RECURSIVE AddToGroups(_, _, _)
\* lines 307-311
AddToGroups(acc, names, row) ==
    IF Len(names) = 0 THEN acc
    ELSE AddToGroups(AddToBucket(acc, Head(names), row, 1), Tail(names), row)

\* lines 307-324 for one row
Aggregate(sums, row) ==
    LET k == Len(row.repGroups)
        named == AddToGroups([sums |-> sums, err |-> ""], row.repGroups, row)
        none == IF k = 0 THEN AddToBucket(named, "#None", row, 1) ELSE named
    IN IF k > 1 THEN AddToBucket(none, "#Multiple", row, 0 - MultipleFactor(k))
       ELSE none

\* one iteration of the loop of line 303
WriteRow ==
    /\ pc = "rows"
    /\ ri <= Len(traffic)
    /\ LET res == Aggregate(sumRepGroups, traffic[ri])
       IN /\ file' = [file EXCEPT !.rows = @ + 1]
          /\ sumRepGroups' = res.sums
          /\ IF res.err # ""
             THEN pc' = "raised" /\ err' = res.err /\ ri' = ri
             ELSE pc' = pc /\ err' = err /\ ri' = ri + 1
    /\ UNCHANGED <<contractMap, cpcodeMap, accountGroups, gi, groupmap,
                   mapCpcodeAccgroup, mapCpcodeRepgroup, cpcodeId, ci, traffic,
                   addedCpCodes, budget, usageSeen, origin, monthVars>>

\* lines 327-332: the summary is printed
Finish ==
    /\ pc = "rows"
    /\ ri > Len(traffic)
    /\ pc' = "done"
    /\ UNCHANGED <<err, contractMap, cpcodeMap, accountGroups, gi, groupmap,
                   mapCpcodeAccgroup, mapCpcodeRepgroup, cpcodeId, ci, traffic,
                   addedCpCodes, file, ri, sumRepGroups, budget, usageSeen, origin, monthVars>>

Next ==
    \/ ListContracts
    \/ ListCpCodes
    \/ ListAccountGroups
    \/ GroupStep
    \/ CreateMapCpcodeRepGroup
    \/ UsageStep
    \/ NoTrafficPass
    \/ OpenFile
    \/ WriteRow
    \/ Finish

Spec == Init /\ [][Next]_vars

(***************************************************************************)
(* month_add, lines 56-68.                                                 *)
(***************************************************************************)
RECURSIVE Split(_, _)
\* s.split(sep) for a one-character separator
Split(s, sep) ==
    LET at == {i \in 1..Len(s) : s[i] = sep}
    IN IF at = {} THEN <<s>>
       ELSE <<SubSeq(s, 1, Min(at) - 1)>> \o Split(SubSeq(s, Min(at) + 1, Len(s)), sep)

RECURSIVE ZeroPad(_, _)
ZeroPad(s, width) == IF Len(s) >= width THEN s ELSE ZeroPad(<<"0">> \o s, width)

\* f"{v:0w}": zero padding to the width w, the sign counted in the width
Format(v, width) ==
    IF v < 0 THEN <<"-">> \o ZeroPad(Dec(0 - v), width - 1)
    ELSE ZeroPad(Dec(v), width)

\* one correction, instead of a loop
NormalizeOnce(y, mm) ==
    IF mm > 12 THEN [y |-> y + 1, mm |-> mm - 12]
    ELSE IF mm < 1 THEN [y |-> y - 1, mm |-> mm + 12]
    ELSE [y |-> y, mm |-> mm]

RECURSIVE Normalize(_, _)
\* lines 62-67: the two while loops
Normalize(y, mm) ==
    IF mm > 12 THEN Normalize(y + 1, mm - 12)
    ELSE IF mm < 1 THEN Normalize(y - 1, mm + 12)
    ELSE [y |-> y, mm |-> mm]

ValueError == [called |-> TRUE, ok |-> FALSE, v |-> <<>>]
Result(s) == [called |-> TRUE, ok |-> TRUE, v |-> s]

month_add(m, n) ==
    LET parts == Split(m, "-")
    IN IF Len(parts) # 2 THEN ValueError          \* y, mm = m.split('-')
       ELSE IF ~IsDigits(parts[1]) \/ ~IsDigits(parts[2]) THEN ValueError   \* int()
       ELSE LET r == Normalize(IntOf(parts[1]), IntOf(parts[2]) + n)
            IN Result(Format(r.y, 4) \o <<"-">> \o Format(r.mm, 2))

\* the "YYYY-MM" string of a year and a month
MonthString(y, mm) == ZeroPad(Dec(y), 4) \o <<"-">> \o ZeroPad(Dec(mm), 2)

Years == {0, 1, 2, 1999, 2000, 2024, 9998, 9999}

MonthInit ==
    /\ ReportInit
    /\ month \in [y : Years, mm : 1..12, n : (0 - MaxN)..MaxN]
    /\ forth = NotCalled
    /\ back = NotCalled

\* month_add(m, n)
MonthAdd ==
    /\ ~forth.called
    /\ forth' = month_add(MonthString(month.y, month.mm), month.n)
    /\ UNCHANGED <<reportVars, month, back>>

\* month_add(month_add(m, n), -n)
MonthBack ==
    /\ forth.called /\ forth.ok
    /\ ~back.called
    /\ back' = month_add(forth.v, 0 - month.n)
    /\ UNCHANGED <<reportVars, month, forth>>

MonthNext == MonthAdd \/ MonthBack

SpecMonth == MonthInit /\ [][MonthNext]_vars

(***************************************************************************)
(* Properties of the report.                                               *)
(***************************************************************************)
\* cptrafficPerMonth has returned its list
Returned == pc \in {"open", "rows", "done"} \/ (pc = "raised" /\ file.exists)

Rows == 1..Len(traffic)
RowsOf(id) == {i \in Rows : traffic[i].cpcode = id}

\* C1: every CP code emitted from the usage pass is in exactly one row of the
\* list cptrafficPerMonth returns.
C1_OneRowPerUsageEntity ==
    Returned =>
        \A i \in Rows :
            origin[i].pass = "usage" => Cardinality(RowsOf(traffic[i].cpcode)) = 1

\* C2: a CP code of the catalog that is in no usage feed has a row if and only
\* if it has an "ongoing" contract and a product of DELIVERY_PRODUCTS.
C2_NoTrafficIff ==
    Returned =>
        \A k \in 1..Len(cpcodeMap) :
            cpcodeMap[k].cpcodeId \notin usageSeen =>
                ((RowsOf(cpcodeMap[k].cpcodeId) # {})
                    <=> (ValidContract(cpcodeMap[k]) /\ ValidProduct(cpcodeMap[k])))

RECURSIVE SumBuckets(_, _)
\* the sum of one statistic over the buckets named in S
SumBuckets(S, key) ==
    IF S = {} THEN 0
    ELSE LET name == CHOOSE n \in S : TRUE
         IN sumRepGroups[name][key] + SumBuckets(S \ {name}, key)

RECURSIVE SumRows(_, _)
\* the sum of one statistic over the first k rows, a row without it counting 0
SumRows(k, key) ==
    IF k = 0 THEN 0
    ELSE (IF traffic[k].hasStats /\ traffic[k][key].some THEN traffic[k][key].v ELSE 0)
            + SumRows(k - 1, key)

\* C3: the totals of the named reporting groups, of #None and of #Multiple add
\* up to the sum of the statistic over the rows consumed, each row counted
\* once, for hits and for bytes; at the end of the loop these are all rows.
C3_SummaryIdentity ==
    pc \in {"rows", "done"} =>
        /\ SumBuckets(DOMAIN sumRepGroups, "hits") = SumRows(ri - 1, "hits")
        /\ SumBuckets(DOMAIN sumRepGroups, "gb") = SumRows(ri - 1, "gb")
        /\ pc = "done" => ri - 1 = Len(traffic)

C3_MultipleCorrected ==
    /\ pc = "done"
    /\ \E i \in Rows : Len(traffic[i].repGroups) >= 2 /\ traffic[i].hasStats
    /\ "#Multiple" \in DOMAIN sumRepGroups
    /\ sumRepGroups["#Multiple"].hits < 0
    /\ sumRepGroups["#Multiple"].gb < 0

\* the string without the prefix, when it starts with it
StripPrefix(s, prefix) ==
    IF Len(s) >= Len(prefix) /\ SubSeq(s, 1, Len(prefix)) = prefix
    THEN SubSeq(s, Len(prefix) + 1, Len(s))
    ELSE s

\* C4: a row of the usage pass reports the contract of the CP code's catalog
\* entry, without the ctr_ prefix, whatever contract the usage was fetched under.
C4_AuthoritativeContract ==
    \A i \in Rows :
        origin[i].pass = "usage" =>
            \E k \in 1..Len(cpcodeMap) :
                /\ cpcodeMap[k].cpcodeId = traffic[i].cpcode
                /\ traffic[i].contract
                        = StripPrefix(cpcodeMap[k].accessGroup.contractId, CTR)

C4_FetchedUnderAnother ==
    /\ pc = "done"
    /\ \E i \in Rows : origin[i].pass = "usage" /\ origin[i].fetched # traffic[i].contract

\* C5: a CP code without an entry in mapCpcodeAccgroup or in cpcodeMap does not
\* end the run: no lookup raises KeyError.
C5_UnresolvedNotFatal == ~(pc = "raised" /\ err = "KeyError")

\* C6: a group whose root contract is None does not end the run.
C6_AmbiguousNotFatal == ~(pc = "raised" /\ err = "AttributeError")

\* C7: a rejected response ends the run before the output file exists, and the
\* file exists only once every fetch of the run has succeeded.
C7_NoPartialOutput ==
    /\ pc = "exit" => ~file.exists
    /\ file.exists =>
          /\ pc \in {"rows", "done", "raised"}
          /\ gi = Len(accountGroups) + 1
          /\ ci = Len(contractMap) + 1

C7_ExitWithRows == pc = "exit" /\ Len(traffic) > 0 /\ ~file.exists

\* the group of the flat list with the numeric id gid
GroupOf(gid) ==
    accountGroups[CHOOSE k \in 1..Len(accountGroups) :
                      accountGroups[k].groupId = GRP \o Dec(gid)]
ResolvedPath(gid) == groupPath(GroupOf(gid).groupId, accountGroups)
AtFirstLevel(gid) == Len(ResolvedPath(gid)) = 2
SecondName(gid) == ResolvedPath(gid)[2]

\* C9: the groupPath of a row lists, in membership order, path[1] of each
\* group of the CP code whose resolved path has length 2, and nothing else.
C9_FirstLevelAttribution ==
    \A i \in Rows :
        traffic[i].groupPath
            = LET first == SelectSeq(mapCpcodeAccgroup[traffic[i].cpcode],
                                     AtFirstLevel)
              IN [j \in 1..Len(first) |-> SecondName(first[j])]

C9_MixedDepths ==
    /\ pc = "done"
    /\ \E i \in Rows :
        LET member == mapCpcodeAccgroup[traffic[i].cpcode]
        IN /\ Len(traffic[i].groupPath) = 1
           /\ \E a, b, c \in 1..Len(member) :
                /\ Len(ResolvedPath(member[a])) = 1
                /\ Len(ResolvedPath(member[b])) = 2
                /\ Len(ResolvedPath(member[c])) = 3

\* C10: no row cptrafficPerMonth returns makes the loop of line 303 raise.
C10_AggregatorCompletes == file.exists => pc # "raised"

(***************************************************************************)
(* Properties of month_add.                                                *)
(***************************************************************************)
\* the string ends in "-" and a month 01..12
MonthPartValid(s) ==
    /\ Len(s) >= 3
    /\ s[Len(s) - 2] = "-"
    /\ IsDigits(SubSeq(s, Len(s) - 1, Len(s)))
    /\ IntOf(SubSeq(s, Len(s) - 1, Len(s))) \in 1..12

\* C8: month_add(month_add(M, N), -N) = M for every valid M and
\* every N, and the intermediate result has its month in 01..12.
C8_RoundTrip ==
    /\ forth.called => forth.ok /\ MonthPartValid(forth.v)
    /\ back.called => back.ok /\ back.v = MonthString(month.y, month.mm)

\* C8, amended: the same for every valid M and every N for which M plus N
\* months is not before 0000-01.
C8_RoundTripFromYearZero ==
    /\ forth.called => forth.ok /\ MonthPartValid(forth.v)
    /\ (back.called /\ 12 * month.y + (month.mm - 1) + month.n >= 0) =>
            back.ok /\ back.v = MonthString(month.y, month.mm)

C8_AcrossYears ==
    /\ back.called /\ back.ok
    /\ month.n <= 0 - 13
    /\ 12 * month.y + (month.mm - 1) + month.n >= 0
    /\ forth.v = MonthString(month.y - 2, 12)
    /\ back.v = MonthString(month.y, month.mm)

====
